---- MODULE Spec2Model ----
(***************************************************************************)
(* A model of the quiz page controller of src/2.0/1.js: the module-level   *)
(* quiz state, the visibility of the five page elements the script         *)
(* toggles, the provider calls in flight, and one action per event         *)
(* handler.  An async handler is two actions: the part that runs up to     *)
(* the await of fetch, and the continuation that runs when the response    *)
(* has arrived.                                                            *)
(***************************************************************************)
EXTENDS Integers, Sequences, FiniteSets, TLC

\* ------------------------------------------------------------------ bounds

\* Longest question array a provider response carries in Spec.
MaxQuestions == 2
\* Most provider calls in flight at once (the code has no such limit).
MaxPending == 2
\* Longest parsed array in SpecProvider.
MaxParsedLen == 2

\* ------------------------------------------------------- program constants

\* q.options.length === 4
OptionCount == 4

\* Values of the language <select>; the first is selected when the page loads.
Languages == {"Python", "JavaScript"}
InitialLanguage == "Python"

\* ------------------------------------------------------ JavaScript values

\* A primitive value: its typeof and its content.
Str(s) == [type |-> "string", val |-> s]
Num(s) == [type |-> "number", val |-> s]

\* A value that may be an array: Array.isArray and the elements.
Arr(items) == [isArray |-> TRUE, items |-> items]
NotArr == [isArray |-> FALSE, items |-> <<>>]

\* An element of the parsed array: null, or an object with the three
\* properties the validation reads.
Obj(q, o, a) == [isNull |-> FALSE, question |-> q, options |-> o, answer |-> a]
Null == [isNull |-> TRUE, question |-> Num("0"), options |-> NotArr, answer |-> Num("0")]

\* ------------------------------------------------------ provider responses

\* What one fetch can bring back, as far as the code looks at it:
\*   fetch       "reject" (network error) or "resolve"
\*   ok          response.ok
\*   body        "notJson" (response.json() rejects), "null" or "object"
\*   candidates  result.candidates: "undefined", "empty" or "some"
\*   content     result.candidates[0].content is truthy
\*   parts       ...content.parts: "undefined", "empty" or "some"
\*   text        ...parts[0].text: "undefined", "garbage" (not JSON) or "json"
\*   parsed      the value JSON.parse gives for a "json" text
Response(f, ok, b, c, ct, p, t, v) ==
    [fetch |-> f, ok |-> ok, body |-> b, candidates |-> c, content |-> ct,
     parts |-> p, text |-> t, parsed |-> v]

NoResponse == Response("none", FALSE, "notJson", "undefined", FALSE, "undefined", "undefined", NotArr)

NetworkError == Response("reject", FALSE, "notJson", "undefined", FALSE, "undefined", "undefined", NotArr)
HttpError == Response("resolve", FALSE, "notJson", "undefined", FALSE, "undefined", "undefined", NotArr)
BodyNotJson == Response("resolve", TRUE, "notJson", "undefined", FALSE, "undefined", "undefined", NotArr)
BodyNull == Response("resolve", TRUE, "null", "undefined", FALSE, "undefined", "undefined", NotArr)
NoCandidates == Response("resolve", TRUE, "object", "undefined", FALSE, "undefined", "undefined", NotArr)
EmptyCandidates == Response("resolve", TRUE, "object", "empty", FALSE, "undefined", "undefined", NotArr)
NoContent == Response("resolve", TRUE, "object", "some", FALSE, "undefined", "undefined", NotArr)
NoParts == Response("resolve", TRUE, "object", "some", TRUE, "undefined", "undefined", NotArr)
EmptyParts == Response("resolve", TRUE, "object", "some", TRUE, "empty", "undefined", NotArr)
NoText == Response("resolve", TRUE, "object", "some", TRUE, "some", "undefined", NotArr)
TextNotJson == Response("resolve", TRUE, "object", "some", TRUE, "some", "garbage", NotArr)
Parsed(v) == Response("resolve", TRUE, "object", "some", TRUE, "some", "json", v)

\* The responses that carry no parsed value.
TransportResponses ==
    {NetworkError, HttpError, BodyNotJson, BodyNull, NoCandidates, EmptyCandidates,
     NoContent, NoParts, EmptyParts, NoText, TextNotJson, Parsed(NotArr)}

\* Well-formed questions: options that repeat a wrong text, options that
\* repeat the answer's text, and four distinct options.
Good1 == Obj(Str("q1"), Arr(<<Str("a"), Str("b"), Str("b"), Str("b")>>), Str("a"))
Good2 == Obj(Str("q2"), Arr(<<Str("b"), Str("a"), Str("b"), Str("b")>>), Str("b"))
Good3 == Obj(Str("q3"), Arr(<<Str("a"), Str("b"), Str("c"), Str("d")>>), Str("c"))

\* Elements that break the shape contract, one way each.
BadQuestionType == Obj(Num("1"), Arr(<<Str("a"), Str("b"), Str("c"), Str("d")>>), Str("a"))
BadOptionsNotArray == Obj(Str("q1"), NotArr, Str("a"))
BadOptionsShort == Obj(Str("q1"), Arr(<<Str("a"), Str("b"), Str("c")>>), Str("a"))
BadOptionsLong == Obj(Str("q1"), Arr(<<Str("a"), Str("b"), Str("c"), Str("d"), Str("e")>>), Str("a"))
BadOptionType == Obj(Str("q1"), Arr(<<Str("a"), Num("2"), Str("c"), Str("d")>>), Str("a"))
BadAnswerType == Obj(Str("q1"), Arr(<<Str("a"), Str("1"), Str("c"), Str("d")>>), Num("1"))
BadAnswerAbsent == Obj(Str("q1"), Arr(<<Str("a"), Str("b"), Str("c"), Str("d")>>), Str("z"))

GoodElements == {Good1, Good2}
BadElements ==
    {BadQuestionType, BadOptionsNotArray, BadOptionsShort, BadOptionsLong,
     BadOptionType, BadAnswerType, BadAnswerAbsent, Null}

\* The sequences over S of length at most n.
SeqUpTo(S, n) == UNION {[1..k -> S] : k \in 0..n}

\* Question arrays of k well-formed elements: the two that alternate Good1
\* and Good2.
Alternating(first, second, k) == [i \in 1..k |-> IF i % 2 = 1 THEN first ELSE second]

\* The responses a call completes with in Spec: one at least for each way
\* out of generateQuestionsWithAI, and two different question arrays of
\* each length up to MaxQuestions.
Responses ==
    {NetworkError, HttpError, NoCandidates, TextNotJson,
     Parsed(Arr(<<BadAnswerAbsent>>)), Parsed(Arr(<<Good1, BadAnswerAbsent>>))}
      \cup {Parsed(Arr(Alternating(Good1, Good2, k))) : k \in 0..MaxQuestions}
      \cup {Parsed(Arr(Alternating(Good2, Good1, k))) : k \in 0..MaxQuestions}

\* The responses a call completes with in SpecProvider.
ProviderResponses ==
    TransportResponses
      \cup {Parsed(Arr(items)) : items \in SeqUpTo(GoodElements \cup {Good3} \cup BadElements, MaxParsedLen)}

\* ------------------------------------------------------------------- state

VARIABLES
    languageSelectValue,        \* languageSelect.value
    languageSelectionHidden,    \* languageSelectionSection has class hidden
    loadingHidden,              \* loadingIndicator has class hidden
    quizHidden,                 \* quizContainer has class hidden
    nextHidden,                 \* nextButton has class hidden
    scoreCardHidden,            \* scoreCard has class hidden
    currentQuestions,
    currentQuestionIndex,
    score,
    answeredThisQuestion,
    questionText,               \* questionText.textContent
    optionButtons,              \* the children of optionsContainer, in order
    finalScore,                 \* finalScoreSpan.textContent: <<>> or <<n>>
    totalQuestions,             \* totalQuestionsSpan.textContent: <<>> or <<n>>
    pending,                    \* the fetches issued and not yet answered
    alerts,                     \* the alert()s of the handler that ran last
    event,                      \* the handler that ran last
    response,                   \* the response the last continuation consumed
    selections,                 \* the options scored since the session began
    quizLanguage                \* the language currentQuestions were requested for

vars ==
    <<languageSelectValue, languageSelectionHidden, loadingHidden, quizHidden,
      nextHidden, scoreCardHidden, currentQuestions, currentQuestionIndex, score,
      answeredThisQuestion, questionText, optionButtons, finalScore,
      totalQuestions, pending, alerts, event, response, selections, quizLanguage>>

dom == <<languageSelectionHidden, loadingHidden, quizHidden, nextHidden, scoreCardHidden>>
session == <<currentQuestions, currentQuestionIndex, score, answeredThisQuestion>>
question == <<questionText, optionButtons>>
result == <<finalScore, totalQuestions>>

\* The page after window.onload: the script hides the quiz, the score card
\* and the spinner; the Next button's class is whatever the markup gives it.
Init ==
    /\ languageSelectValue = InitialLanguage
    /\ languageSelectionHidden = FALSE
    /\ loadingHidden = TRUE
    /\ quizHidden = TRUE
    /\ nextHidden \in BOOLEAN
    /\ scoreCardHidden = TRUE
    /\ currentQuestions = <<>>
    /\ currentQuestionIndex = 0
    /\ score = 0
    /\ answeredThisQuestion = FALSE
    /\ questionText = ""
    /\ optionButtons = <<>>
    /\ finalScore = <<>>
    /\ totalQuestions = <<>>
    /\ pending = <<>>
    /\ alerts = <<>>
    /\ event = "load"
    /\ response = NoResponse
    /\ selections = <<>>
    /\ quizLanguage = ""

\* ------------------------------------------------- generateQuestionsWithAI

\* q.options.includes(q.answer): some element is the same value, type and all.
Includes(items, v) == \E i \in 1..Len(items) : items[i] = v

\* IsValidQuestion without the test that the answer is one of the options.
IsValidQuestionAnyAnswer(q) ==
    /\ q.question.type = "string"
    /\ q.options.isArray
    /\ Len(q.options.items) = OptionCount
    /\ \A i \in 1..Len(q.options.items) : q.options.items[i].type = "string"
    /\ q.answer.type = "string"

\* The predicate handed to parsedQuestions.every, for a q that is not null.
IsValidQuestion(q) ==
    /\ q.question.type = "string"
    /\ q.options.isArray
    /\ Len(q.options.items) = OptionCount
    /\ \A i \in 1..Len(q.options.items) : q.options.items[i].type = "string"
    /\ q.answer.type = "string"
    /\ Includes(q.options.items, q.answer)

\* parsedQuestions.every(...) from element i on: "true", "false" at the first
\* element the predicate rejects, "throw" when the predicate reads a property
\* of null before any element was rejected.
RECURSIVE Some(_, _)
RECURSIVE Every(_, _)

\* Every with the array method some in place of every.
Some(items, i) ==
    IF i > Len(items) THEN "false"
    ELSE IF items[i].isNull THEN "throw"
    ELSE IF IsValidQuestion(items[i]) THEN "true"
    ELSE Some(items, i + 1)

Every(items, i) ==
    IF i > Len(items) THEN "true"
    ELSE IF items[i].isNull THEN "throw"
    ELSE IF IsValidQuestion(items[i]) THEN Every(items, i + 1)
    ELSE "false"

\* What the function returns, and the alerts it raised on the way.
Returned(questions) == [questions |-> questions, alerts |-> <<>>]
\* The else branch of the validation: one alert, an empty array.
UnexpectedFormat == [questions |-> <<>>, alerts |-> <<"Failed to parse AI-generated questions">>]
\* The else branch of the structure test: one alert, an empty array.
UnexpectedStructure == [questions |-> <<>>, alerts |-> <<"AI did not return valid questions">>]
\* Caught with the error logged and no alert.
CaughtSilently == [questions |-> <<>>, alerts |-> <<>>]

\* The catch block: one alert, an empty array.
Caught == [questions |-> <<>>, alerts |-> <<"Failed to generate questions">>]

\* result.candidates && result.candidates.length > 0 && ...content &&
\* ...content.parts && ...content.parts.length > 0
HasParts(r) == r.candidates = "some" /\ r.content /\ r.parts = "some"

\* The function from the point where fetch settles with r to its return.
generateQuestionsWithAI(r) ==
    IF r.fetch = "reject" THEN Caught
    ELSE IF ~r.ok THEN Caught
    ELSE IF r.body # "object" THEN Caught
    ELSE IF ~HasParts(r) THEN UnexpectedStructure
    ELSE IF r.text # "json" THEN Caught
    ELSE IF ~r.parsed.isArray THEN UnexpectedFormat
    ELSE LET every == Every(r.parsed.items, 1) IN
         IF every = "true" THEN Returned(r.parsed.items)
         ELSE IF every = "false" THEN UnexpectedFormat
         ELSE Caught

\* ------------------------------------------------------------ page layout

\* The start button and the <select> sit in the language selection section.
StartShown == ~languageSelectionHidden
\* The option buttons are the children of optionsContainer, in the quiz container.
OptionsShown == ~quizHidden
\* The Next button sits in the quiz container and has a hidden class of its own.
NextShown == ~quizHidden /\ ~nextHidden
\* The retake and change-language buttons sit in the score card.
RetakeShown == ~scoreCardHidden
ChangeLanguageShown == ~scoreCardHidden

\* ---------------------------------------------------------------- handlers

\* How many times v occurs in the array.
Count(items, v) == Cardinality({i \in 1..Len(items) : items[i] = v})

\* The orders [...options].sort(() => Math.random() - 0.5) can give: the
\* comparator answers at random, so any arrangement of the same elements.
Shuffles(options) ==
    LET values == {options[i] : i \in 1..Len(options)}
    IN {s \in [1..Len(options) -> values] :
          \A v \in values : Count(s, v) = Count(options, v)}

\* The button loadQuestion creates for one option of question q.
Button(option, q) ==
    [text |-> option.val, option |-> option, correctAnswer |-> q.answer,
     disabled |-> FALSE, classes |-> {}]

\* loadQuestion with the Next button left as it is.
loadQuestionKeepsNext(questions, index, shuffled) ==
    /\ answeredThisQuestion' = FALSE
    /\ questionText' = questions[index + 1].question.val
    /\ UNCHANGED nextHidden
    /\ optionButtons' = [i \in 1..Len(shuffled) |-> Button(shuffled[i], questions[index + 1])]

\* loadQuestion, showing question number index of questions, the options in
\* the order shuffled.
loadQuestion(questions, index, shuffled) ==
    /\ answeredThisQuestion' = FALSE
    /\ questionText' = questions[index + 1].question.val
    /\ nextHidden' = TRUE
    /\ optionButtons' = [i \in 1..Len(shuffled) |-> Button(shuffled[i], questions[index + 1])]

\* showResult with the quiz container left on screen.
showResultKeepsQuiz ==
    /\ UNCHANGED quizHidden
    /\ scoreCardHidden' = FALSE
    /\ finalScore' = <<score>>
    /\ totalQuestions' = <<Len(currentQuestions)>>

\* showResult.
showResult ==
    /\ quizHidden' = TRUE
    /\ scoreCardHidden' = FALSE
    /\ finalScore' = <<score>>
    /\ totalQuestions' = <<Len(currentQuestions)>>

\* The user picks another language in the <select>.
selectLanguage(l) ==
    /\ StartShown
    /\ l # languageSelectValue
    /\ languageSelectValue' = l
    /\ event' = "selectLanguage"
    /\ alerts' = <<>>
    /\ response' = NoResponse
    /\ UNCHANGED <<dom, session, question, result, pending, selections, quizLanguage>>

\* startQuiz up to the await of fetch: the selected language is read, the
\* spinner shown, the language selection hidden and the request sent.
startQuizCall ==
    /\ Len(pending) < MaxPending
    /\ loadingHidden' = FALSE
    /\ languageSelectionHidden' = TRUE
    /\ pending' = Append(pending, [language |-> languageSelectValue])
    /\ alerts' = <<>>
    /\ response' = NoResponse
    /\ UNCHANGED <<languageSelectValue, quizHidden, nextHidden, scoreCardHidden,
                   session, question, result, selections, quizLanguage>>

\* A click on the start button.
startQuiz ==
    /\ StartShown
    /\ startQuizCall
    /\ event' = "startQuiz"

\* A click on the retake button.
retakeQuiz ==
    /\ RetakeShown
    /\ startQuizCall
    /\ event' = "retakeQuiz"

\* startQuizRest with the score card left as it is when no questions came.
startQuizRestKeepsScoreCard(questions) ==
    /\ currentQuestions' = questions
    /\ IF Len(questions) = 0
       THEN /\ languageSelectionHidden' = FALSE
            /\ quizHidden' = TRUE
            /\ UNCHANGED <<scoreCardHidden, currentQuestionIndex, score,
                           answeredThisQuestion, nextHidden, question, selections>>
       ELSE /\ currentQuestionIndex' = 0
            /\ score' = 0
            /\ languageSelectionHidden' = TRUE
            /\ quizHidden' = FALSE
            /\ scoreCardHidden' = TRUE
            /\ selections' = <<>>
            /\ \E shuffled \in Shuffles(questions[1].options.items) :
                  loadQuestion(questions, 0, shuffled)

\* startQuizRest with the score carried over into the new quiz.
startQuizRestKeepsScore(questions) ==
    /\ currentQuestions' = questions
    /\ IF Len(questions) = 0
       THEN /\ languageSelectionHidden' = FALSE
            /\ quizHidden' = TRUE
            /\ scoreCardHidden' = TRUE
            /\ UNCHANGED <<currentQuestionIndex, score, answeredThisQuestion,
                           nextHidden, question, selections>>
       ELSE /\ currentQuestionIndex' = 0
            /\ languageSelectionHidden' = TRUE
            /\ quizHidden' = FALSE
            /\ scoreCardHidden' = TRUE
            /\ selections' = <<>>
            /\ UNCHANGED score
            /\ \E shuffled \in Shuffles(questions[1].options.items) :
                  loadQuestion(questions, 0, shuffled)

\* startQuizRest with the language selection left hidden when no questions came.
startQuizRestStaysHidden(questions) ==
    /\ currentQuestions' = questions
    /\ IF Len(questions) = 0
       THEN /\ quizHidden' = TRUE
            /\ scoreCardHidden' = TRUE
            /\ UNCHANGED <<languageSelectionHidden, currentQuestionIndex, score,
                           answeredThisQuestion, nextHidden, question, selections>>
       ELSE /\ currentQuestionIndex' = 0
            /\ score' = 0
            /\ languageSelectionHidden' = TRUE
            /\ quizHidden' = FALSE
            /\ scoreCardHidden' = TRUE
            /\ selections' = <<>>
            /\ \E shuffled \in Shuffles(questions[1].options.items) :
                  loadQuestion(questions, 0, shuffled)

\* startQuiz after the await, with what generateQuestionsWithAI returned.
startQuizRest(questions) ==
    /\ currentQuestions' = questions
    /\ IF Len(questions) = 0
       THEN /\ languageSelectionHidden' = FALSE
            /\ quizHidden' = TRUE
            /\ scoreCardHidden' = TRUE
            /\ UNCHANGED <<currentQuestionIndex, score, answeredThisQuestion,
                           nextHidden, question, selections>>
       ELSE /\ currentQuestionIndex' = 0
            /\ score' = 0
            /\ languageSelectionHidden' = TRUE
            /\ quizHidden' = FALSE
            /\ scoreCardHidden' = TRUE
            /\ selections' = <<>>
            /\ \E shuffled \in Shuffles(questions[1].options.items) :
                  loadQuestion(questions, 0, shuffled)

\* startQuizResume with the request sent again when no questions came.
startQuizResumeRetries(i, r) ==
    /\ i \in 1..Len(pending)
    /\ pending' =
          IF Len(generateQuestionsWithAI(r).questions) = 0
          THEN pending
          ELSE [k \in 1..(Len(pending) - 1) |-> IF k < i THEN pending[k] ELSE pending[k + 1]]
    /\ alerts' = generateQuestionsWithAI(r).alerts
    /\ loadingHidden' = TRUE
    /\ startQuizRest(generateQuestionsWithAI(r).questions)
    /\ event' = "startQuizResume"
    /\ response' = r
    /\ quizLanguage' =
          IF Len(generateQuestionsWithAI(r).questions) = 0
          THEN quizLanguage
          ELSE pending[i].language
    /\ UNCHANGED <<languageSelectValue, result>>

\* The fetch of pending call i settles with r: generateQuestionsWithAI runs
\* to its return (its finally block hides the spinner) and startQuiz resumes.
startQuizResume(i, r) ==
    /\ i \in 1..Len(pending)
    /\ pending' = [k \in 1..(Len(pending) - 1) |-> IF k < i THEN pending[k] ELSE pending[k + 1]]
    /\ alerts' = generateQuestionsWithAI(r).alerts
    /\ loadingHidden' = TRUE
    /\ startQuizRest(generateQuestionsWithAI(r).questions)
    /\ event' = "startQuizResume"
    /\ response' = r
    /\ quizLanguage' =
          IF Len(generateQuestionsWithAI(r).questions) = 0
          THEN quizLanguage
          ELSE pending[i].language
    /\ UNCHANGED <<languageSelectValue, result>>

\* isCorrect comparing nothing but the types.
isCorrectByType(selectedOption, correctAnswer) == selectedOption.type = correctAnswer.type

\* selectedOption === correctAnswer
isCorrect(selectedOption, correctAnswer) == selectedOption = correctAnswer

\* alreadyAnswered with the early return left out.
alreadyAnsweredIgnored == FALSE

\* if (answeredThisQuestion) return
alreadyAnswered == answeredThisQuestion

\* Whether an option was already scored for the question now shown.
Reselection == \E k \in 1..Len(selections) : selections[k].index = currentQuestionIndex

\* classesAdded with the right answer not pointed out after a wrong choice.
classesAddedToSelectedOnly(isSelected, correct, textContent, correctAnswer) ==
    IF isSelected THEN (IF correct THEN {"correct"} ELSE {"incorrect"}) ELSE {}

\* The classes selectOption adds to one button: the selected button gets
\* 'correct' or 'incorrect'; after a wrong choice every button whose text is
\* the answer gets 'correct'.
classesAdded(isSelected, correct, textContent, correctAnswer) ==
    (IF isSelected THEN (IF correct THEN {"correct"} ELSE {"incorrect"}) ELSE {})
       \cup (IF ~correct /\ textContent = correctAnswer.val THEN {"correct"} ELSE {})

\* A call of selectOption for button b of the options container.  The call
\* is modelled whether or not the button is disabled: the function guards
\* itself with answeredThisQuestion.
selectOption(b) ==
    /\ OptionsShown
    /\ b \in 1..Len(optionButtons)
    /\ event' = IF Reselection THEN "selectOptionAgain" ELSE "selectOption"
    /\ alerts' = <<>>
    /\ response' = NoResponse
    /\ UNCHANGED quizLanguage
    /\ IF alreadyAnswered
       THEN UNCHANGED <<languageSelectValue, dom, session, question, result, pending, selections>>
       ELSE LET selectedOption == optionButtons[b].option
                correctAnswer == optionButtons[b].correctAnswer
                correct == isCorrect(selectedOption, correctAnswer)
            IN /\ answeredThisQuestion' = TRUE
               /\ score' = IF correct THEN score + 1 ELSE score
               /\ optionButtons' =
                    [k \in 1..Len(optionButtons) |->
                        [optionButtons[k] EXCEPT
                           !.disabled = TRUE,
                           !.classes = @ \cup classesAdded(k = b, correct, optionButtons[k].text, correctAnswer)]]
               /\ nextHidden' = FALSE
               /\ selections' = Append(selections, [index |-> currentQuestionIndex, option |-> selectedOption])
               /\ UNCHANGED <<languageSelectValue, languageSelectionHidden, loadingHidden,
                              quizHidden, scoreCardHidden, currentQuestions,
                              currentQuestionIndex, questionText, result, pending>>

\* hasMoreQuestions stopping one question early.
hasMoreQuestionsButOne(index, questions) == index < Len(questions) - 1

\* currentQuestionIndex < currentQuestions.length, after the increment.
hasMoreQuestions(index, questions) == index < Len(questions)

\* A click on the Next button.
loadNextQuestion ==
    /\ NextShown
    /\ currentQuestionIndex' = currentQuestionIndex + 1
    /\ event' = "loadNextQuestion"
    /\ alerts' = <<>>
    /\ response' = NoResponse
    /\ IF hasMoreQuestions(currentQuestionIndex + 1, currentQuestions)
       THEN /\ \E shuffled \in Shuffles(currentQuestions[currentQuestionIndex + 2].options.items) :
                  loadQuestion(currentQuestions, currentQuestionIndex + 1, shuffled)
            /\ UNCHANGED <<quizHidden, scoreCardHidden, result>>
       ELSE /\ showResult
            /\ UNCHANGED <<answeredThisQuestion, nextHidden, question>>
    /\ UNCHANGED <<languageSelectValue, languageSelectionHidden, loadingHidden,
                   currentQuestions, score, pending, selections, quizLanguage>>

\* changeLanguage with the score card left on screen.
changeLanguageKeepsScoreCard ==
    /\ ChangeLanguageShown
    /\ languageSelectionHidden' = FALSE
    /\ quizHidden' = TRUE
    /\ loadingHidden' = TRUE
    /\ event' = "changeLanguage"
    /\ alerts' = <<>>
    /\ response' = NoResponse
    /\ UNCHANGED <<languageSelectValue, scoreCardHidden, nextHidden, session,
                   question, result, pending, selections, quizLanguage>>

\* A click on the change-language button.
changeLanguage ==
    /\ ChangeLanguageShown
    /\ languageSelectionHidden' = FALSE
    /\ quizHidden' = TRUE
    /\ scoreCardHidden' = TRUE
    /\ loadingHidden' = TRUE
    /\ event' = "changeLanguage"
    /\ alerts' = <<>>
    /\ response' = NoResponse
    /\ UNCHANGED <<languageSelectValue, nextHidden, session, question, result,
                   pending, selections, quizLanguage>>

\* ---------------------------------------------------------- specifications

\* The controller with the language left as the page loaded it.
Next ==
    \/ startQuiz
    \/ retakeQuiz
    \/ \E i \in 1..MaxPending, r \in Responses : startQuizResume(i, r)
    \/ \E b \in 1..OptionCount : selectOption(b)
    \/ loadNextQuestion
    \/ changeLanguage

Spec == Init /\ [][Next]_vars

\* The controller with the user also changing the language.
NextLanguage ==
    \/ Next
    \/ \E l \in Languages : selectLanguage(l)

SpecLanguage == Init /\ [][NextLanguage]_vars

\* The provider alone: a start from the language selection, and the call's
\* completion with any response of the larger set.
NextProvider ==
    \/ startQuiz
    \/ \E r \in ProviderResponses : startQuizResume(1, r)

SpecProvider == Init /\ [][NextProvider]_vars

\* ------------------------------------------------------------------ claims

\* The three screens, as the visibility of their elements.
IdleScreen == ~languageSelectionHidden /\ quizHidden /\ scoreCardHidden
QuizScreen == ~quizHidden
ScoreScreen == ~scoreCardHidden

\* The shape contract of one element of a response array.
MeetsShapeContract(q) ==
    /\ ~q.isNull
    /\ q.question.type = "string"
    /\ q.options.isArray
    /\ Len(q.options.items) = 4
    /\ \A o \in {q.options.items[i] : i \in DOMAIN q.options.items} : o.type = "string"
    /\ q.answer.type = "string"
    /\ q.answer \in {q.options.items[i] : i \in DOMAIN q.options.items}

\* The response reaches the validation: the call succeeded, the text part is
\* there and parses to an array.
CarriesArray(r) ==
    /\ r.fetch = "resolve" /\ r.ok /\ r.body = "object"
    /\ r.candidates = "some" /\ r.content /\ r.parts = "some"
    /\ r.text = "json" /\ r.parsed.isArray

\* Some element of the response array violates the shape contract.
HasViolation(r) ==
    CarriesArray(r) /\ \E i \in DOMAIN r.parsed.items : ~MeetsShapeContract(r.parsed.items[i])

\* A failed call: transport, structure, parse or validation.
FailedCall(r) == ~CarriesArray(r) \/ HasViolation(r)

\* The continuation of a provider call is the handler that ran last.
CallCompleted == event = "startQuizResume"

\* C1 (as claimed): at most one provider call is outstanding, and while one
\* is outstanding neither the start nor the retake button can be clicked.
C1_NoReentryWhileLoading ==
    /\ Len(pending) <= 1
    /\ Len(pending) > 0 => ~StartShown /\ ~RetakeShown

\* C2: a provider call that fails leaves the controller on the language
\* selection with the quiz and the score card hidden, no questions, and
\* exactly one alert raised for that call.
C2_FailedCallEndsIdle ==
    (CallCompleted /\ FailedCall(response)) =>
        /\ IdleScreen
        /\ currentQuestions = <<>>
        /\ Len(alerts) = 1

\* C2 witness: an HTTP error answered a retake of a finished quiz.
C2_Witness ==
    /\ CallCompleted
    /\ response = HttpError
    /\ finalScore # <<>>
    /\ IdleScreen
    /\ Len(alerts) = 1

\* C3 (as claimed): a call that yields no questions, the empty array included,
\* ends on the language selection with a failure notice and no quiz.
C3_EmptyResultIsNoticed ==
    (CallCompleted /\ currentQuestions = <<>>) =>
        /\ IdleScreen
        /\ Len(alerts) >= 1

\* C4: when any element of the response array violates the shape contract
\* the call fails and no question comes back, not even the valid ones.
C4_AllOrNothing ==
    (CallCompleted /\ HasViolation(response)) =>
        /\ currentQuestions = <<>>
        /\ Len(alerts) >= 1
        /\ ~QuizScreen

\* C4 witness: a valid element followed by one with three options.
C4_Witness ==
    /\ CallCompleted
    /\ response = Parsed(Arr(<<Good1, BadOptionsShort>>))
    /\ currentQuestions = <<>>

\* C5: every question of currentQuestions has exactly 4 options and an
\* answer that is one of them, and a well-formed response array becomes
\* currentQuestions whole.
C5_QuestionsWellFormed ==
    /\ \A i \in DOMAIN currentQuestions :
          /\ Len(currentQuestions[i].options.items) = 4
          /\ \E k \in DOMAIN currentQuestions[i].options.items :
                currentQuestions[i].options.items[k] = currentQuestions[i].answer
    /\ (CallCompleted /\ CarriesArray(response) /\ ~HasViolation(response)) =>
          /\ currentQuestions = response.parsed.items
          /\ Len(currentQuestions) = Len(response.parsed.items)

\* C5 witness: a response of two well-formed questions was accepted.
C5_Witness ==
    /\ CallCompleted
    /\ Len(response.parsed.items) = 2
    /\ currentQuestions = response.parsed.items

\* The bounds of the session.
SessionBounds ==
    /\ 0 <= currentQuestionIndex /\ currentQuestionIndex <= Len(currentQuestions)
    /\ 0 <= score /\ score <= Len(currentQuestions)

\* C6 (as claimed): the session bounds hold in every reachable state.
C6_BoundsEverywhere == SessionBounds

\* C6 (amended): the session bounds hold whenever the quiz or the score
\* card is shown.
C6_BoundsWhileShown == (QuizScreen \/ ScoreScreen) => SessionBounds

\* C6 witness: the score card of a quiz of two questions, both answered right.
C6_Witness ==
    /\ ScoreScreen
    /\ Len(currentQuestions) = 2
    /\ currentQuestionIndex = 2
    /\ score = 2

\* C7: a selectOption for a question that already has its selection leaves
\* score and answeredThisQuestion as they were.
C7_ReselectionChangesNothing ==
    [][event' = "selectOptionAgain" =>
          /\ score' = score
          /\ answeredThisQuestion' = answeredThisQuestion
          /\ answeredThisQuestion]_vars

\* C7 witness: a second selectOption after a first that scored.
C7_Witness ==
    /\ event = "selectOptionAgain"
    /\ score = 1
    /\ currentQuestionIndex = 0

\* The run so far has one selection for each question, in order.
OneSelectionPerQuestion ==
    /\ Len(selections) = Len(currentQuestions)
    /\ \A k \in DOMAIN selections : selections[k].index = k - 1

\* How many of the selections are the answer of their question.
CorrectSelections ==
    Cardinality({k \in DOMAIN selections :
                   selections[k].option = currentQuestions[selections[k].index + 1].answer})

\* C8: on the score card of a quiz of K questions run with one selection per
\* question, A of them right, the score shown is A, the total shown is K and
\* 0 <= A <= K.
C8_FinalScore ==
    (ScoreScreen /\ OneSelectionPerQuestion) =>
        /\ finalScore = <<CorrectSelections>>
        /\ totalQuestions = <<Len(currentQuestions)>>
        /\ score = CorrectSelections
        /\ 0 <= CorrectSelections /\ CorrectSelections <= Len(currentQuestions)

\* C8 witness: a quiz of two questions finished with one right selection.
C8_Witness ==
    /\ ScoreScreen
    /\ OneSelectionPerQuestion
    /\ Len(currentQuestions) = 2
    /\ CorrectSelections = 1
    /\ finalScore = <<1>>

\* C9: an advance that leaves the index below the number of questions keeps
\* the quiz on screen with the question at the new index; the advance that
\* brings the index to the number of questions, and no other, shows the
\* score card.
C9_FinishedOnLastAdvance ==
    [][currentQuestionIndex' = currentQuestionIndex + 1 =>
          /\ currentQuestionIndex' <= Len(currentQuestions')
          /\ currentQuestionIndex' < Len(currentQuestions') =>
                /\ QuizScreen' /\ ~ScoreScreen'
                /\ questionText' = currentQuestions'[currentQuestionIndex' + 1].question.val
                /\ ~answeredThisQuestion'
          /\ currentQuestionIndex' = Len(currentQuestions') =>
                /\ ScoreScreen' /\ ~QuizScreen']_vars

\* C9 witness: the second advance of a quiz of two questions.
C9_Witness ==
    /\ event = "loadNextQuestion"
    /\ Len(currentQuestions) = 2
    /\ currentQuestionIndex = 2
    /\ ScoreScreen

\* C10: a start or a retake sends one request, and the completion of a call
\* with a non-empty well-formed array begins a session at index 0, score 0,
\* not answered, with the request consumed.
C10_FreshSession ==
    [][/\ event' \in {"startQuiz", "retakeQuiz"} => Len(pending') = Len(pending) + 1
       /\ (/\ event' = "startQuizResume"
           /\ CarriesArray(response') /\ ~HasViolation(response')
           /\ response'.parsed.items # <<>>) =>
             /\ Len(pending') = Len(pending) - 1
             /\ currentQuestions' = response'.parsed.items
             /\ currentQuestionIndex' = 0
             /\ score' = 0
             /\ ~answeredThisQuestion'
             /\ QuizScreen']_vars

\* C10 witness: a retake answered with questions after a quiz that ended
\* with score 2.
C10_Witness ==
    /\ CallCompleted
    /\ Len(currentQuestions) > 0
    /\ finalScore = <<2>>
    /\ score = 0
    /\ currentQuestionIndex = 0

\* The handlers the user's own selections and advances run.
UserQuizEvents == {"selectOption", "selectOptionAgain", "loadNextQuestion"}

\* C11 (as claimed): changeLanguage leaves the controller on the language
\* selection with quiz and score card hidden, and from there the language
\* selection is left only by a click on the start button, never by the
\* completion of a call sent earlier.
C11_ChangeTopicStaysIdle ==
    [][/\ event' = "changeLanguage" => IdleScreen'
       /\ (event = "changeLanguage" /\ IdleScreen /\ ~IdleScreen') => event' = "startQuiz"]_vars

\* C12 (as claimed): while the quiz is on screen currentQuestions is not
\* replaced, and currentQuestionIndex and score change only by the user's
\* selections and advances.
C12_SessionUntouched ==
    [][QuizScreen =>
          /\ currentQuestions' = currentQuestions
          /\ (currentQuestionIndex' # currentQuestionIndex \/ score' # score) =>
                event' \in UserQuizEvents]_vars

\* C13: the request a retake sends names the language the questions of the
\* quiz just finished were requested for.
C13_RetakeSameLanguage ==
    [][event' = "retakeQuiz" => pending'[Len(pending')].language = quizLanguage]_vars

\* C14: a click on start or retake sends exactly one request, the completion
\* of a call takes exactly one away whatever its outcome, and nothing else
\* changes the requests outstanding.
C14_OneRequestPerClick ==
    [][/\ event' \in {"startQuiz", "retakeQuiz"} => pending' = Append(pending, pending'[Len(pending')])
       /\ event' = "startQuizResume" => Len(pending') = Len(pending) - 1
       /\ event' \notin {"startQuiz", "retakeQuiz", "startQuizResume"} => pending' = pending]_vars

\* C14 witness: a network error ended the only call and no request is out.
C14_Witness ==
    /\ CallCompleted
    /\ response = NetworkError
    /\ Len(alerts) = 1
    /\ pending = <<>>

\* Some button the user can act on is on screen.
UserActionAvailable ==
    \/ StartShown
    \/ OptionsShown /\ ~answeredThisQuestion /\ Len(optionButtons) > 0
    \/ NextShown
    \/ RetakeShown
    \/ ChangeLanguageShown

\* C15: in every state a call is in flight or a user action is available;
\* a completed call leaves the language selection or the quiz on screen, and
\* after a failed call the start button is available.
C15_NoTerminalState ==
    /\ Len(pending) > 0 \/ UserActionAvailable
    /\ CallCompleted => IdleScreen \/ (QuizScreen /\ ~ScoreScreen /\ ~StartShown)
    /\ (CallCompleted /\ currentQuestions = <<>>) => StartShown

\* C15 witness: a failed call with nothing else in flight.
C15_Witness ==
    /\ CallCompleted
    /\ FailedCall(response)
    /\ pending = <<>>
    /\ StartShown

\* C17: the Next button is available only when the question shown has been
\* answered, and a handler that loads a question leaves Next hidden and the
\* answered flag cleared.
C17_NextOnlyAfterAnswer ==
    /\ NextShown => answeredThisQuestion
    /\ (QuizScreen /\ event \in {"startQuizResume", "loadNextQuestion"}) =>
          nextHidden /\ ~answeredThisQuestion

\* C17 witness: Next available on the second question, after its answer.
C17_Witness ==
    /\ NextShown
    /\ answeredThisQuestion
    /\ currentQuestionIndex = 1

\* C18: whenever the quiz is on screen the index names a question.
C18_CurrentQuestionExists ==
    QuizScreen =>
        /\ 0 <= currentQuestionIndex
        /\ currentQuestionIndex < Len(currentQuestions)
        /\ questionText = currentQuestions[currentQuestionIndex + 1].question.val

\* C18 witness: the last question on screen while a call is still in flight.
C18_Witness ==
    /\ QuizScreen
    /\ Len(currentQuestions) = 2
    /\ currentQuestionIndex = 1
    /\ Len(pending) > 0

\* How many of the three screens are on.
ScreensShown ==
    (IF ~languageSelectionHidden THEN 1 ELSE 0)
      + (IF ~quizHidden THEN 1 ELSE 0)
      + (IF ~scoreCardHidden THEN 1 ELSE 0)

\* C19: at most one of the language selection, the quiz and the score card
\* is visible.
C19_OneScreen == ScreensShown <= 1

\* C19 witness: the score card alone on screen while a retake is in flight.
C19_Witness ==
    /\ ScoreScreen
    /\ event = "retakeQuiz"
    /\ Len(pending) > 0
    /\ ScreensShown = 1

\* C16: right after the first selection for a question every option button is
\* disabled and the Next button is shown; if the chosen option is the answer,
\* the chosen button alone is marked correct and none incorrect; otherwise the
\* chosen button alone is marked incorrect and exactly the buttons whose text
\* is the answer are marked correct; either way some button is marked correct.
Marked(class) == {k \in 1..Len(optionButtons) : class \in optionButtons[k].classes}

C16_FirstSelectionMarks ==
    event = "selectOption" =>
       LET chosen == selections[Len(selections)].option
           answer == currentQuestions[currentQuestionIndex + 1].answer
           withAnswer == {k \in 1..Len(optionButtons) : optionButtons[k].text = answer.val}
       IN /\ Len(optionButtons) = OptionCount
          /\ \A k \in 1..Len(optionButtons) : optionButtons[k].disabled
          /\ IF chosen = answer
             THEN /\ \E b \in withAnswer : Marked("correct") = {b}
                  /\ Marked("incorrect") = {}
             ELSE /\ \E b \in 1..Len(optionButtons) :
                        Marked("incorrect") = {b} /\ optionButtons[b].option = chosen
                  /\ Marked("correct") = withAnswer
          /\ Marked("correct") # {}
          /\ NextShown

C16_Witness ==
    /\ event = "selectOption"
    /\ selections[Len(selections)].option # currentQuestions[currentQuestionIndex + 1].answer
    /\ Cardinality(Marked("correct")) = 3
    /\ Cardinality(Marked("incorrect")) = 1

====
